---- MODULE Spec2Model ----
(***************************************************************************)
(* tornado-proxy: a forward HTTP proxy (ProxyHandler.get/post) with a      *)
(* pluggable cache (SimpleCache, FileSystemCache, WaybackFileSystemCache). *)
(*                                                                         *)
(* The model follows src/tornado_proxy/proxy.py and cache.py.  One action  *)
(* is one run of a handler or callback on the single IOLoop thread: the    *)
(* only suspension point of a GET/POST is the outbound fetch.              *)
(***************************************************************************)
EXTENDS Integers, Sequences, FiniteSets, Bags, TLC

\* ------------------------------------------------------------------ bounds
MaxNow == 2          \* the clock runs over 0..MaxNow (seconds since epoch)
MaxReqs == 2         \* requests received over a run of Spec
MaxPlainReqs == 3    \* requests received over a run of SpecPlain
MaxBytes == 2        \* bytes each peer of a tunnel sends
MaxWord == 1         \* tokens in a url's path and in a request body
MaxBody == 2         \* bytes in a response body that is stored and read back
MaxForced == 1       \* forced inserts over a run of SpecAdmin

\* ------------------------------------------------------------ value spaces
None == 0 - 2        \* Python's None / an absent header or attribute
BadInt == 0 - 1      \* a header value that int() rejects (not a decimal)

Hashes == {1, 2}     \* md5 digests of (url, method, body) triples
Timestamps == 0 .. MaxNow
Reqs == {1, 2}       \* requests that are in flight at the same time

\* X-Wayback-Timestamp / X-Wayback-Within as a client can send them
HeaderValues == {None, BadInt} \cup Timestamps

\* WaybackFileSystemCache.__init__(default_within=...): the lookback window
default_within == 2

NoPath == << >>
NoBody == << >>

\* ------------------------------------------------------------------- state
VARIABLES
    cache,    \* which cache ProxyHandler.initialize got
    now,      \* int(datetime.utcnow().strftime("%s"))
    idx,      \* sqlite table idx(key, timestamp): a bag of rows
    files,    \* snapshot files under root: path -> record
    dirs,     \* shard directories that exist under root
    data,     \* SimpleCache.data: key -> response
    req,      \* the requests being handled, with the client's view of them
    nreq,     \* how many requests were received
    tunnel,   \* the CONNECT session: both streams, the wires, the IOLoop
    admin     \* the last call of CacheHandler or of the cache's mapping API

vars == <<cache, now, idx, files, dirs, data, req, nreq, tunnel, admin>>

CacheKinds == {"none", "simple", "file", "wayback"}

\* ---------------------------------------------------------------- responses
\* tornado's HTTPResponse / cache.py's HTTPResponse namedtuple.  error is
\* "" (None), "HTTPError" or "other" (any exception that is no HTTPError);
\* ctype stands for the allow-listed origin headers ("" when absent), hkey
\* and hts for X-Proxy-Cache-Key and X-Wayback-Timestamp.
NoResponse ==
    [error |-> "", code |-> 0, ctype |-> "", body |-> NoBody,
     hkey |-> NoPath, hts |-> None]

Origin(error, code, ctype, body) ==
    [error |-> error, code |-> code, ctype |-> ctype, body |-> body,
     hkey |-> NoPath, hts |-> None]

\* What a fetch can call back with: an HTTP answer, an HTTP error status
\* (an HTTPError) or a failure without an HTTP status (code 599).
HTTPResponses ==
    { Origin("", 200, "text/html", <<"content", 1>>),
      Origin("HTTPError", 404, "", <<"content", 2>>) }

OriginResponses == HTTPResponses \cup { Origin("other", 599, "", NoBody) }

\* ----------------------------------------------------------------- requests
\* HTTPRequest as built at proxy.py:75, with the attributes hash_request
\* hangs on it, the state of the handler and what the client received.
Idle ==
    [pc |-> "idle", hash |-> 0, T |-> None, W |-> None,
     hdrT |-> None, hdrW |-> None,
     wb_path |-> NoPath, wb_insert |-> FALSE, wb_timestamp |-> None,
     fetches |-> 0, resp |-> NoResponse, stored |-> "",
     finished |-> 0, status |-> 0, ctype |-> "", hkey |-> NoPath,
     hts |-> None, body |-> NoBody]

\* ------------------------------------------------------------ key resolution
\* Cache.hash_request: the md5 digest of url, method and body.
Cache_hash_request(request) == request.hash

\* os.path.join(hash[0:2], hash[2:4], hash + '.gz')
FileSystemCache_hash_request(request) == <<Cache_hash_request(request), None>>

\* os.path.join(hash[0:2], hash[2:4], hash + '-' + str(timestamp) + '.gz')
WaybackPath(hash, timestamp) == <<hash, timestamp>>

\* int(x) at cache.py:212 and 214
IntFails(x) == x = BadInt

\* A mutant of Filter: the lower end of the window taken inclusive.
FilterInclusive(request_time, within, now_, timestamp) ==
    IF request_time # None
    THEN IF within = 0 THEN timestamp = request_time
         ELSE IF within # None
              THEN timestamp <= request_time /\ timestamp >= request_time - within
              ELSE timestamp <= request_time
    ELSE IF within = 0 THEN timestamp = now_
         ELSE timestamp >=
                now_ - (IF within = None THEN default_within ELSE within)

\* The WHERE clause chosen at cache.py:213-240 (request_time and within are
\* the parsed header values, None when the header is absent).
Filter(request_time, within, now_, timestamp) ==
    IF request_time # None
    THEN IF within = 0 THEN timestamp = request_time
         ELSE IF within # None
              THEN timestamp <= request_time /\ timestamp > request_time - within
              ELSE timestamp <= request_time
    ELSE IF within = 0 THEN timestamp = now_
         ELSE timestamp >
                now_ - (IF within = None THEN default_within ELSE within)

\* SELECT timestamp FROM idx WHERE key=? AND <f>
Select(table, key, request_time, within, now_) ==
    { row[2] : row \in { x \in BagToSet(table) :
                           /\ x[1] = key
                           /\ Filter(request_time, within, now_, x[2]) } }

\* ORDER BY timestamp desc LIMIT 1; fetchone()
FetchOne(rows) ==
    IF rows = {} THEN None
    ELSE CHOOSE t \in rows : \A u \in rows : u <= t

\* A mutant of WaybackFileSystemCache_hash_request: error_on_miss is never
\* set, so a miss for a target timestamp is a lookup flagged new.
hash_request_no_error_on_miss(request, table, now_) ==
    IF request.wb_path # NoPath
    THEN [raise |-> "", request |-> request]
    ELSE
      LET request_time == request.hdrT
          within == request.hdrW
          popped == [request EXCEPT !.hdrT = None, !.hdrW = None]
      IN IF (within # None /\ IntFails(within))
            \/ (request_time # None /\ IntFails(request_time))
         THEN [raise |-> "ValueError", request |-> popped]
         ELSE
           LET val == FetchOne(Select(table, Cache_hash_request(request),
                                      request_time, within, now_))
           IN IF val # None
              THEN [raise |-> "",
                    request |-> [popped EXCEPT
                       !.wb_insert = FALSE,
                       !.wb_timestamp = val,
                       !.wb_path = WaybackPath(request.hash, val)]]
              ELSE [raise |-> "",
                    request |-> [popped EXCEPT
                       !.wb_insert = TRUE,
                       !.wb_timestamp = now_,
                       !.wb_path = WaybackPath(request.hash, now_)]]

\* WaybackFileSystemCache.hash_request for a request without _wb_force.
\* The result names the exception raised ("" for none) and the request as
\* the call leaves it.
WaybackFileSystemCache_hash_request(request, table, now_) ==
    IF request.wb_path # NoPath
    THEN [raise |-> "", request |-> request]
    ELSE
      LET request_time == request.hdrT
          within == request.hdrW
          popped == [request EXCEPT !.hdrT = None, !.hdrW = None]
      IN IF (within # None /\ IntFails(within))
            \/ (request_time # None /\ IntFails(request_time))
         THEN [raise |-> "ValueError", request |-> popped]
         ELSE
           LET val == FetchOne(Select(table, Cache_hash_request(request),
                                      request_time, within, now_))
               error_on_miss == request_time # None
           IN IF val # None
              THEN [raise |-> "",
                    request |-> [popped EXCEPT
                       !.wb_insert = FALSE,
                       !.wb_timestamp = val,
                       !.wb_path = WaybackPath(request.hash, val)]]
              ELSE IF error_on_miss
              THEN [raise |-> "WaybackPageNotFound", request |-> popped]
              ELSE [raise |-> "",
                    request |-> [popped EXCEPT
                       !.wb_insert = TRUE,
                       !.wb_timestamp = now_,
                       !.wb_path = WaybackPath(request.hash, now_)]]

\* ------------------------------------------------------------------ storage
\* dict-like updates of files and data
Put(f, k, v) == [x \in DOMAIN f \cup {k} |-> IF x = k THEN v ELSE f[x]]
Remove(f, k) == [x \in DOMAIN f \ {k} |-> f[x]]
Empty == [x \in {} |-> NoResponse]

\* What can go wrong in FileSystemCache._set, and in the INSERT after it.
FileOutcomes == {"ok", "makedirs", "open", "write"}
PutOutcomes == [file : FileOutcomes, insert : {"ok", "error"}]
NoPut == [file |-> "ok", insert |-> "ok"]

\* The record FileSystemCache._set writes (cache.py:139-160): the status
\* line holds the error's message, or nothing after the comma.
Record(val) ==
    [code |-> val.code, message |-> val.error, ctype |-> val.ctype,
     body |-> val.body, complete |-> TRUE]

\* What is in the file when a write raised on the way: gzip.open(path, 'wb')
\* emptied it and the record was not written to its end.
Partial(val) ==
    [Record(val) EXCEPT !.body = NoBody, !.complete = FALSE]

\* A mutant of os_remove: the file is left where it is.
os_remove_skipped(f, path) == f

\* os.remove(path) in the except clause (cache.py:163), for a file that
\* exists
os_remove(f, path) == Remove(f, path)

\* FileSystemCache._set(key, val) with the file system behaving as `how`:
\*   makedirs  os.makedirs raises (outside the try: it propagates)
\*   open      gzip.open raises; the handler's os.remove then raises too
\*             unless an older file is there, which it removes
\*   write     a write or the body's decode raises; the file that was
\*             opened is removed and the exception is swallowed
FileSystemCache_set(key, val, how) ==
    LET d == key[1]
        made == dirs \cup {d}
    IN IF d \notin dirs /\ how = "makedirs"
       THEN [raise |-> "OSError", files |-> files, dirs |-> dirs, wrote |-> FALSE]
       ELSE IF how = "open"
       THEN IF key \in DOMAIN files
            THEN [raise |-> "", files |-> os_remove(files, key), dirs |-> made,
                  wrote |-> FALSE]
            ELSE [raise |-> "OSError", files |-> files, dirs |-> made,
                  wrote |-> FALSE]
       ELSE IF how = "write"
       THEN [raise |-> "",
             files |-> os_remove(Put(files, key, Partial(val)), key),
             dirs |-> made, wrote |-> FALSE]
       ELSE [raise |-> "", files |-> Put(files, key, Record(val)),
             dirs |-> made, wrote |-> TRUE]

\* FileSystemCache._get(request, key): a missing file is an IOError, turned
\* into KeyError.  The message read back keeps its line end, so it is never
\* empty and error is always an HTTPError (cache.py:110-113).
FileSystemCache_get(key) ==
    IF key \notin DOMAIN files
    THEN [raise |-> "KeyError", response |-> NoResponse]
    ELSE [raise |-> "",
          response |-> [error |-> "HTTPError", code |-> files[key].code,
                        ctype |-> files[key].ctype, body |-> files[key].body,
                        hkey |-> key, hts |-> None]]

\* cache.get(req): Mapping.get calls __getitem__ and turns KeyError into
\* None (found = FALSE); any other exception propagates.
CacheGet(request) ==
    IF cache = "simple"
    THEN LET key == Cache_hash_request(request)
         IN IF key \in DOMAIN data
            THEN [raise |-> "", found |-> TRUE, request |-> request,
                  response |-> data[key]]
            ELSE [raise |-> "", found |-> FALSE, request |-> request,
                  response |-> NoResponse]
    ELSE IF cache = "file"
    THEN LET got == FileSystemCache_get(FileSystemCache_hash_request(request))
         IN [raise |-> "", found |-> got.raise = "", request |-> request,
             response |-> got.response]
    ELSE \* WaybackFileSystemCache.__getitem__ and _get
         LET h == WaybackFileSystemCache_hash_request(request, idx, now)
         IN IF h.raise # ""
            THEN [raise |-> h.raise, found |-> FALSE, request |-> h.request,
                  response |-> NoResponse]
            ELSE LET got == FileSystemCache_get(h.request.wb_path)
                 IN [raise |-> "", found |-> got.raise = "",
                     request |-> h.request,
                     response |-> [got.response EXCEPT
                                     !.hts = h.request.wb_timestamp]]

\* A mutant of Insert: the row takes the place of the fingerprint's rows.
InsertOrReplace(table, row) ==
    LET others == [x \in { y \in BagToSet(table) : y[1] # row[1] }
                     |-> CopiesIn(x, table)]
    IN others (+) SetToBag({row})

\* INSERT INTO idx (key, timestamp) VALUES (?, ?) (cache.py:277-281)
Insert(table, row) == table (+) SetToBag({row})

\* self.cache[req] = response: __setitem__ of the configured cache.  The
\* result holds the exception that leaves it ("" for none), the request and
\* the response as the call leaves them, and the storage after the call.
CacheSet(request, response, how) ==
    IF cache = "simple"
    THEN [raise |-> "", request |-> request, response |-> response,
          stored |-> "ok", idx |-> idx, files |-> files, dirs |-> dirs,
          data |-> Put(data, Cache_hash_request(request), response)]
    ELSE IF cache = "file"
    THEN LET key == FileSystemCache_hash_request(request)
             val == [response EXCEPT !.hkey = key]
             w == FileSystemCache_set(key, val, how.file)
         IN [raise |-> w.raise, request |-> request, response |-> val,
             stored |-> IF w.wrote THEN "ok" ELSE "failed",
             idx |-> idx, files |-> w.files, dirs |-> w.dirs, data |-> data]
    ELSE \* WaybackFileSystemCache.__setitem__ (cache.py:273-281)
         LET h == WaybackFileSystemCache_hash_request(request, idx, now)
             rq == h.request
             key == rq.wb_path
             val == [response EXCEPT !.hkey = key]
             w == FileSystemCache_set(key, val, how.file)
             stamped == [val EXCEPT !.hts = rq.wb_timestamp]
             row == <<Cache_hash_request(rq), rq.wb_timestamp>>
         IN IF w.raise # ""
            THEN [raise |-> w.raise, request |-> rq, response |-> val,
                  stored |-> "failed", idx |-> idx, files |-> w.files,
                  dirs |-> w.dirs, data |-> data]
            ELSE IF rq.wb_insert /\ how.insert = "error"
            THEN [raise |-> "sqlite3.Error", request |-> rq,
                  response |-> stamped, stored |-> "failed", idx |-> idx,
                  files |-> w.files, dirs |-> w.dirs, data |-> data]
            ELSE [raise |-> "", request |-> rq, response |-> stamped,
                  stored |-> IF w.wrote THEN "ok" ELSE "failed",
                  idx |-> IF rq.wb_insert THEN Insert(idx, row) ELSE idx,
                  files |-> w.files, dirs |-> w.dirs, data |-> data]

\* ----------------------------------------------------------------- handlers
\* self.finish(): the response is complete; the HTTPRequest built for the
\* fetch and the attributes hung on it are not used again.
Finish(request) ==
    [request EXCEPT !.pc = "done", !.finished = @ + 1,
                    !.hdrT = None, !.hdrW = None, !.wb_path = NoPath,
                    !.wb_insert = FALSE, !.wb_timestamp = None]

\* proxy.py:55-56 and 106-107: set_status(500) and the diagnostic text
InternalServerError(request) ==
    Finish([request EXCEPT !.status = 500,
                           !.body = <<"Internal server error:", 0>>])

\* proxy.py:89-94: status 523 and the text made from the exception, whose
\* fields are the url, the requested timestamp and within, which
\* hash_request never passes (cache.py:251) and so stays None.
PageNotFound(request, timestamp) ==
    Finish([request EXCEPT
              !.status = 523,
              !.body = <<"Could not find", request.hash, timestamp, None>>])

\* A mutant of Uncaught: nobody answers, the request stays open.
UncaughtLeftOpen(request) == [request EXCEPT !.pc = "open"]

\* An exception that leaves get or handle_response: tornado.web answers the
\* request with its own 500 page (nothing was written before).
Uncaught(request) ==
    Finish([request EXCEPT !.status = 500,
                           !.body = <<"tornado.web error page", 500>>])

\* proxy.py:61-70: status, the allow-listed headers that are set, the body
Deliver(request, response) ==
    Finish([request EXCEPT !.status = response.code,
                           !.ctype = response.ctype,
                           !.hkey = response.hkey,
                           !.hts = response.hts,
                           !.body = response.body])

\* A mutant of TransportFailure: the `not` of proxy.py:53 dropped.
TransportFailureInverted(response) == response.error = "HTTPError"

\* proxy.py:53-54: response.error and not isinstance(response.error,
\* tornado.httpclient.HTTPError)
TransportFailure(response) == response.error = "other"

\* A mutant of SetsCache: set_cache ignored, a hit is written back.
SetsCacheAlways(set_cache) == cache # "none"

\* proxy.py:58: set_cache and self.cache is not None
SetsCache(set_cache) == set_cache /\ cache # "none"

\* handle_response(response, set_cache) at proxy.py:52-70, the put going as
\* `how` says.  The result is the request and the storage after the call.
handle_response(request, response, set_cache, how) ==
    LET same == [idx |-> idx, files |-> files, dirs |-> dirs, data |-> data]
    IN IF TransportFailure(response)
       THEN [request |-> InternalServerError(request)] @@ same
       ELSE IF SetsCache(set_cache)
       THEN LET put == CacheSet(request, response, how)
                after == [idx |-> put.idx, files |-> put.files,
                          dirs |-> put.dirs, data |-> put.data]
                rq == [put.request EXCEPT !.stored = put.stored]
            IN IF put.raise # ""
               THEN [request |-> Uncaught(rq)] @@ after
               ELSE [request |-> Deliver(rq, put.response)] @@ after
       ELSE [request |-> Deliver(request, response)] @@ same

\* What the client may send.  Only the wayback cache reads the two control
\* headers (the others pass them on to the origin untouched), so they are
\* varied for it alone.
ControlHeaders ==
    IF cache = "wayback" THEN HeaderValues ELSE {None}

\* A target timestamp is sent as a decimal or not at all: a value int()
\* rejects takes the same path for either header, and X-Wayback-Within
\* shows it.
TargetHeaders == ControlHeaders \ {BadInt}

\* client.fetch(req, handle_response) at proxy.py:99-108.  Given a callback,
\* tornado's fetch schedules the request and reports every outcome, HTTP
\* errors included, through the callback.  The except clause of
\* proxy.py:102-108 runs only if fetch itself raises an HTTPError, with or
\* without a response: SpecRaising allows that as well.
FetchOutcomes == {"scheduled", "HTTPError", "HTTPError with response"}

Apply(r, result) ==
    /\ req' = [req EXCEPT ![r] = result.request]
    /\ idx' = result.idx
    /\ files' = result.files
    /\ dirs' = result.dirs
    /\ data' = result.data

\* ProxyHandler.get (and post, which calls it) up to the point where it
\* returns: a hit or a 523 finishes the request, anything else fetches.
\* Requests take the lowest free slot.  `fetch` is what client.fetch does
\* when it is reached.
Get(r, hash, T, W, fetch) ==
    /\ req[r].pc = "idle"
    /\ \A q \in Reqs : q < r => req[q].pc # "idle"
    /\ nreq' = nreq + 1
    /\ UNCHANGED <<cache, now, tunnel, admin>>
    /\ LET request == [Idle EXCEPT !.hash = hash, !.T = T, !.W = W,
                                   !.hdrT = T, !.hdrW = W]
           same == [idx |-> idx, files |-> files, dirs |-> dirs,
                    data |-> data]
           got == IF cache = "none"
                  THEN [raise |-> "", found |-> FALSE, request |-> request,
                        response |-> NoResponse]
                  ELSE CacheGet(request)
           sent == [got.request EXCEPT !.fetches = @ + 1]
       IN IF got.raise = "" /\ got.found
          THEN Apply(r, handle_response(got.request, got.response, FALSE,
                                        NoPut))
          ELSE IF got.raise = "WaybackPageNotFound"
          THEN Apply(r, [request |-> PageNotFound(got.request, T)] @@ same)
          ELSE \* a miss, or "Error reading from cache"
               IF fetch = "scheduled"
               THEN Apply(r, [request |-> [sent EXCEPT !.pc = "fetching"]]
                               @@ same)
               ELSE IF fetch = "HTTPError with response"
               THEN \E response \in HTTPResponses, how \in PutOutcomes :
                      Apply(r, handle_response(
                                 [sent EXCEPT !.resp = response],
                                 response, TRUE, how))
               ELSE Apply(r, [request |-> InternalServerError(sent)]
                               @@ same)

\* The fetch completes: the IOLoop runs handle_response(response).
HandleResponse(r, response, how) ==
    /\ req[r].pc = "fetching"
    /\ UNCHANGED <<cache, now, nreq, tunnel, admin>>
    /\ Apply(r, handle_response([req[r] EXCEPT !.resp = response],
                                response, TRUE, how))

\* The connection of a finished request goes away.
Close(r) ==
    /\ req[r].pc = "done"
    /\ req' = [req EXCEPT ![r] = Idle]
    /\ UNCHANGED <<cache, now, idx, files, dirs, data, nreq, tunnel, admin>>

\* A second passes.
Tick ==
    /\ now < MaxNow
    /\ now' = now + 1
    /\ UNCHANGED <<cache, idx, files, dirs, data, req, nreq, tunnel, admin>>

\* ------------------------------------------------------------ cache API calls
\* The last call made on the cache outside ProxyHandler: op names it, raise
\* the exception that left it ("" for none), found what it answered.
NoAdmin == [op |-> "", raise |-> "", found |-> FALSE, forced |-> 0]

\* The response CacheHandler.post builds from its JSON body: cache.py's
\* HTTPResponse namedtuple, which has no `request` attribute.
ForcedResponse == Origin("", 200, "", <<"content", 3>>)

\* hash_request for a request that has _wb_force (cache.py:199-206): the
\* timestamp is the one given, or now.
hash_request_forced(request, timestamp, now_) ==
    LET ts == IF timestamp # None THEN timestamp ELSE now_
    IN [request EXCEPT !.wb_timestamp = ts, !.wb_insert = TRUE,
                       !.wb_path = WaybackPath(request.hash, ts)]

\* CacheHandler.post (cache.py:328-348) on a wayback cache: the forced
\* insert.  __setitem__ calls _set, which writes the record and then reads
\* response.request._wb_timestamp (cache.py:263-264): the namedtuple has no
\* request, so AttributeError leaves __setitem__ before the INSERT.
ForcedInsert(hash, timestamp, how) ==
    /\ cache = "wayback"
    /\ admin.forced < MaxForced
    /\ LET rq == hash_request_forced([Idle EXCEPT !.hash = hash],
                                     timestamp, now)
           val == [ForcedResponse EXCEPT !.hkey = rq.wb_path]
           w == FileSystemCache_set(rq.wb_path, val, how)
           has_request == FALSE
           raised == IF w.raise # "" THEN w.raise
                     ELSE IF ~has_request THEN "AttributeError"
                     ELSE ""
       IN /\ files' = w.files
          /\ dirs' = w.dirs
          /\ idx' = IF raised = "" /\ rq.wb_insert
                    THEN Insert(idx, <<rq.hash, rq.wb_timestamp>>)
                    ELSE idx
          /\ admin' = [op |-> "post", raise |-> raised, found |-> w.wrote,
                       forced |-> admin.forced + 1]
    /\ UNCHANGED <<cache, now, data, req, nreq, tunnel>>

\* WaybackFileSystemCache.__init__ (cache.py:175-182): the tables are
\* created, empty, only when the database file is not there yet.
WaybackFileSystemCache_init(table, db_exists) ==
    LET create_tables == ~db_exists
    IN IF create_tables THEN EmptyBag ELSE table

\* The process is started again on the same root: the requests that were
\* in flight are gone, the files and the database, which the first start
\* created, are still there.
Restart ==
    /\ cache = "wayback"
    /\ \E r \in Reqs : req[r].pc # "idle"
    /\ idx' = WaybackFileSystemCache_init(idx, TRUE)
    /\ req' = [r \in Reqs |-> Idle]
    /\ admin' = [NoAdmin EXCEPT !.forced = admin.forced]
    /\ UNCHANGED <<cache, now, files, dirs, data, nreq, tunnel>>

\* CacheHandler.get (cache.py:289-306): cache.get for a request without
\* headers; found says whether a response came back (else 404).
AdminGet(hash) ==
    /\ cache = "wayback"
    /\ LET got == CacheGet([Idle EXCEPT !.hash = hash])
       IN admin' = [admin EXCEPT !.op = "get", !.raise = got.raise,
                                 !.found = got.found]
    /\ UNCHANGED <<cache, now, idx, files, dirs, data, req, nreq, tunnel>>

\* SimpleCache._contains (cache.py:57-58)
SimpleCache_contains(key) == key \in DOMAIN data

\* FileSystemCache._contains (cache.py:100-101): os.path.exists(key) for
\* the key as it is, relative to the working directory: the file's presence
\* when that directory is the root (atRoot), False otherwise.
FileSystemCache_contains(key, atRoot) == atRoot /\ key \in DOMAIN files

\* request in cache: Cache.__contains__ (cache.py:27-31) is hash_request,
\* then _contains of the configured cache.
CacheContains(request, atRoot) ==
    IF cache = "simple"
    THEN [raise |-> "",
          found |-> SimpleCache_contains(Cache_hash_request(request))]
    ELSE IF cache = "file"
    THEN [raise |-> "",
          found |-> FileSystemCache_contains(
                        FileSystemCache_hash_request(request), atRoot)]
    ELSE LET h == WaybackFileSystemCache_hash_request(request, idx, now)
         IN IF h.raise # ""
            THEN [raise |-> h.raise, found |-> FALSE]
            ELSE [raise |-> "",
                  found |-> FileSystemCache_contains(h.request.wb_path,
                                                     atRoot)]

\* The request a caller of the mapping API passes.
Asked(hash, T, W) ==
    [Idle EXCEPT !.hash = hash, !.T = T, !.W = W, !.hdrT = T, !.hdrW = W]

Contains(hash, T, W, atRoot) ==
    /\ cache # "none"
    /\ LET c == CacheContains(Asked(hash, T, W), atRoot)
       IN admin' = [admin EXCEPT !.op = "contains", !.raise = c.raise,
                                 !.found = c.found]
    /\ UNCHANGED <<cache, now, idx, files, dirs, data, req, nreq, tunnel>>

\* -------------------------------------------------------------- fingerprint
\* Byte strings are sequences of tokens; "GET" and "POST" are the bytes of
\* the method names, which a url or a body may hold as well.
Tokens == {"GET", "x"}

RECURSIVE Words(_)
Words(n) ==
    IF n = 0 THEN { << >> }
    ELSE Words(n - 1) \cup
         { Append(w, c) : w \in { v \in Words(n - 1) : Len(v) = n - 1 },
                          c \in Tokens }

\* request.url, request.method and request.body of the HTTPRequest built at
\* proxy.py:72-78; a GET without body has body None (given = FALSE).
Urls == { <<"http://a/">> \o w : w \in Words(MaxWord) }
Methods == { <<"GET">>, <<"POST">> }
Bodies ==
    { [given |-> FALSE, bytes |-> << >>] } \cup
    { [given |-> TRUE, bytes |-> w] : w \in Words(MaxWord) }
Triples == [url : Urls, method : Methods, body : Bodies]

\* Cache.hash_request (cache.py:19-25): md5 over the url, the method and the
\* body if there is one, fed one after the other.  The digest stands for
\* the bytes fed (md5 taken as collision-free).
hash_request(request) ==
    LET hash0 == << >>
        hash1 == hash0 \o request.url
        hash2 == hash1 \o request.method
        hash3 == IF request.body.given THEN hash2 \o request.body.bytes
                 ELSE hash2
    IN hash3

\* Two requests are drawn and fingerprinted.
NoDigest == <<"">>

Fingerprint ==
    /\ admin.op = "requests"
    /\ admin' = [admin EXCEPT !.op = "hashed",
                              !.fa = hash_request(admin.a),
                              !.fb = hash_request(admin.b)]
    /\ UNCHANGED <<cache, now, idx, files, dirs, data, req, nreq, tunnel>>

Forget ==
    /\ admin.op = "hashed"
    /\ admin' = [admin EXCEPT !.op = "requests", !.fa = NoDigest,
                              !.fb = NoDigest]
    /\ UNCHANGED <<cache, now, idx, files, dirs, data, req, nreq, tunnel>>

\* ------------------------------------------------------------ snapshot records
\* The record format of FileSystemCache in full.  A body is a sequence of
\* bytes, a text (Python's unicode) a sequence of code points.  The bytes
\* are 'A', 0xE9 (e acute in latin1, not valid UTF-8 on its own) and
\* 0xC3 0xA9 (e acute in UTF-8).
Octets == {65, 233, 195, 169}

RECURSIVE ByteStrings(_)
ByteStrings(n) ==
    IF n = 0 THEN { << >> }
    ELSE ByteStrings(n - 1) \cup
         { Append(w, c) : w \in { v \in ByteStrings(n - 1) : Len(v) = n - 1 },
                          c \in Octets }

NoText == [ok |-> FALSE, text |-> << >>]

\* bytes.decode('utf-8'): one byte below 0x80, or a lead byte 0xC2..0xDF
\* with one continuation byte; anything else raises UnicodeDecodeError.
RECURSIVE DecodeUtf8(_)
DecodeUtf8(b) ==
    IF b = << >> THEN [ok |-> TRUE, text |-> << >>]
    ELSE IF b[1] < 128
    THEN LET rest == DecodeUtf8(Tail(b))
         IN [ok |-> rest.ok, text |-> <<b[1]>> \o rest.text]
    ELSE IF b[1] \in 194 .. 223 /\ Len(b) >= 2 /\ b[2] \in 128 .. 191
    THEN LET rest == DecodeUtf8(SubSeq(b, 3, Len(b)))
         IN [ok |-> rest.ok,
             text |-> <<(b[1] - 192) * 64 + (b[2] - 128)>> \o rest.text]
    ELSE NoText

\* text.encode('utf-8') for code points below 0x800
RECURSIVE EncodeUtf8(_)
EncodeUtf8(text) ==
    IF text = << >> THEN << >>
    ELSE (IF text[1] < 128 THEN <<text[1]>>
          ELSE <<192 + (text[1] \div 64), 128 + (text[1] % 64)>>)
         \o EncodeUtf8(Tail(text))

\* bytes.decode('latin1'): byte n is code point n
DecodeLatin1(b) == [ok |-> TRUE, text |-> [i \in DOMAIN b |-> b[i]]]

\* text.encode('latin1'): code points up to 0xFF; the others raise
EncodeLatin1(text) ==
    [ok |-> \A i \in DOMAIN text : text[i] < 256,
     bytes |-> [i \in DOMAIN text |-> text[i] % 256]]

\* body.decode(charset); a name that is no codec raises LookupError
Decode(charset, b) ==
    IF charset = "utf-8" THEN DecodeUtf8(b)
    ELSE IF charset = "latin1" THEN DecodeLatin1(b)
    ELSE NoText

\* body.encode(charset)
Encode(charset, text) ==
    IF charset = "utf-8" THEN [ok |-> TRUE, bytes |-> EncodeUtf8(text)]
    ELSE IF charset = "latin1" THEN EncodeLatin1(text)
    ELSE [ok |-> FALSE, bytes |-> << >>]

\* str.lower() on the parameter values that occur
Lower(v) == IF v = "UTF-8" THEN "utf-8" ELSE v

\* A Content-Type value as content_type.split(';') sees it, each part as
\* part.split('=') sees it; HeaderSets are the response headers (the
\* allow-listed one that matters here), with or without Content-Type.
ContentTypes ==
    { << <<"text/html">> >>,
      << <<"text/html">>, <<"">> >>,
      << <<"text/html">>, <<" charset", "utf-8">> >>,
      << <<"text/html">>, <<" charset", "UTF-8">> >>,
      << <<"text/html">>, <<" charset", "latin1">> >>,
      << <<"multipart/form-data">>, <<" boundary", "xyz">> >> }

HeaderSets ==
    { [h \in {} |-> << >>] } \cup
    { [h \in {"Content-Type"} |-> c] : c \in ContentTypes }

\* get_content_charset (cache.py:70-77)
get_content_charset(headers) ==
    IF "Content-Type" \notin DOMAIN headers THEN "latin1"
    ELSE LET parts == headers["Content-Type"]
         IN IF Len(parts) < 2 THEN "latin1"
            ELSE IF Len(parts[2]) < 2 THEN "latin1"
            ELSE Lower(parts[2][2])

\* The responses a put is given: tornado's HTTPResponse with a bytes body.
Responses ==
    [code : {200, 404}, headers : HeaderSets, body : ByteStrings(MaxBody)]

\* What FileSystemCache._set writes between gzip.open and the end of the
\* with block (cache.py:139-160), or the exception raised on the way.
WriteRecord(key, val) ==
    LET charset == get_content_charset(val.headers)
        body == Decode(charset, val.body)
    IN IF ~body.ok
       THEN [raise |-> "decode", record |-> << >>]
       ELSE [raise |-> "",
             record |-> [code |-> val.code,
                         headers |-> val.headers,
                         key |-> key,
                         content |-> EncodeUtf8(body.text)]]

\* What FileSystemCache._get makes of a record (cache.py:105-127).  A body
\* left as text (charset utf-8) is given as the bytes RequestHandler.write
\* sends for it, its UTF-8 encoding.
ReadRecord(record) ==
    LET body == DecodeUtf8(record.content)
        charset == get_content_charset(record.headers)
        bytes == IF charset # "utf-8" THEN Encode(charset, body.text)
                 ELSE [ok |-> TRUE, bytes |-> EncodeUtf8(body.text)]
    IN IF ~body.ok \/ ~bytes.ok
       THEN [raise |-> "codec", code |-> 0, headers |-> record.headers,
             key |-> record.key, body |-> << >>]
       ELSE [raise |-> "", code |-> record.code, headers |-> record.headers,
             key |-> record.key, body |-> bytes.bytes]

\* The one key the round trip uses.
RoundTripKey == <<1, None>>

\* cache[request] = val on a FileSystemCache: a record is written, or the
\* write raises and the except clause removes the file.
RoundTripPut ==
    /\ admin.op = "val"
    /\ LET w == WriteRecord(RoundTripKey, admin.val)
       IN /\ files' = IF w.raise = "" THEN Put(files, RoundTripKey, w.record)
                      ELSE Remove(files, RoundTripKey)
          /\ admin' = [admin EXCEPT !.op = "put", !.raise = w.raise]
    /\ dirs' = dirs \cup {1}
    /\ UNCHANGED <<cache, now, idx, data, req, nreq, tunnel>>

\* cache.get(request) after it: None (found = FALSE) when the file is not
\* there.
RoundTripGet ==
    /\ admin.op = "put"
    /\ admin' = IF RoundTripKey \in DOMAIN files
                THEN [admin EXCEPT !.op = "got", !.found = TRUE,
                                   !.got = ReadRecord(files[RoundTripKey])]
                ELSE [admin EXCEPT !.op = "got", !.found = FALSE]
    /\ UNCHANGED <<cache, now, idx, files, dirs, data, req, nreq, tunnel>>

NoGot == [raise |-> "", code |-> 0, headers |-> [h \in {} |-> << >>],
          key |-> RoundTripKey, body |-> << >>]

\* ------------------------------------------------------------------- tunnel
\* ProxyHandler.connect (proxy.py:114-146) with the two IOStreams it uses.
\* A stream is the proxy's end of a connection: closed() and the bytes
\* written but not yet taken by the socket, `out` being what the peer has
\* received; reading says read_until_close is in effect.  Bytes are numbers:
\* the client sends 1, 2, ..., upstream sends 101, 102, ..., and 200 is the
\* line 'HTTP/1.0 200 Connection established\r\n\r\n'.
NoStream == [closed |-> FALSE, reading |-> FALSE, wbuf |-> << >>, out |-> << >>]

Established == 0 + 200
UpstreamBase == 0 + 100

\* pc is where connect() got: "idle", "connecting" (upstream.connect was
\* called), "failed" (the connection could not be made) or "tunnel"
\* (start_tunnel ran).  fromClient/fromUpstream are bytes on the way to the
\* proxy, clientEOF/upstreamEOF say that the peer closed its end,
\* readClient/readUpstream are all the bytes the proxy has read, loop holds
\* the callbacks the IOLoop still has to run, and raised names the
\* callbacks in which a write to a closed stream raised.
NoTunnel ==
    [pc |-> "idle", client |-> NoStream, upstream |-> NoStream,
     fromClient |-> << >>, fromUpstream |-> << >>,
     clientEOF |-> FALSE, upstreamEOF |-> FALSE,
     nClient |-> 0, nUpstream |-> 0,
     readClient |-> << >>, readUpstream |-> << >>,
     loop |-> << >>, raised |-> {}]

\* IOStream.write(data): the socket takes the bytes at once (sent) when
\* nothing is waiting before them, or they wait in the write buffer.
Write(stream, chunk, sent) ==
    IF sent /\ stream.wbuf = << >>
    THEN [stream EXCEPT !.out = @ \o chunk]
    ELSE [stream EXCEPT !.wbuf = @ \o chunk]

\* IOStream.close(): the socket is closed at once; what waits in the write
\* buffer is dropped.
CloseStream(stream) ==
    [stream EXCEPT !.closed = TRUE, !.reading = FALSE, !.wbuf = << >>]

Callback(f, chunk) == [f |-> f, data |-> chunk]

\* proxy.py:119-120
read_from_client(t, chunk, sent) ==
    IF t.upstream.closed
    THEN [t EXCEPT !.raised = @ \cup {"read_from_client"}]
    ELSE [t EXCEPT !.upstream = Write(@, chunk, sent)]

\* proxy.py:122-123
read_from_upstream(t, chunk, sent) ==
    IF t.client.closed
    THEN [t EXCEPT !.raised = @ \cup {"read_from_upstream"}]
    ELSE [t EXCEPT !.client = Write(@, chunk, sent)]

\* proxy.py:125-130.  Closing upstream ends its read_until_close, whose
\* callback (upstream_close) the IOLoop then runs.
client_close(t, chunk, sent) ==
    IF t.upstream.closed THEN t
    ELSE LET written == IF chunk # << >> THEN Write(t.upstream, chunk, sent)
                        ELSE t.upstream
         IN [t EXCEPT !.upstream = CloseStream(written),
                      !.loop = IF t.upstream.reading
                               THEN Append(@, Callback("upstream_close", << >>))
                               ELSE @]

\* proxy.py:132-137
upstream_close(t, chunk, sent) ==
    IF t.client.closed THEN t
    ELSE LET written == IF chunk # << >> THEN Write(t.client, chunk, sent)
                        ELSE t.client
         IN [t EXCEPT !.client = CloseStream(written),
                      !.loop = IF t.client.reading
                               THEN Append(@, Callback("client_close", << >>))
                               ELSE @]

\* A mutant of start_tunnel: the 200 line is not written.
start_tunnel_without_line(t, sent) ==
    [t EXCEPT !.pc = "tunnel",
              !.client = [@ EXCEPT !.reading = TRUE],
              !.upstream = [@ EXCEPT !.reading = TRUE]]

\* proxy.py:139-142
start_tunnel(t, sent) ==
    [t EXCEPT !.pc = "tunnel",
              !.client = Write([@ EXCEPT !.reading = TRUE],
                               <<Established>>, sent),
              !.upstream = [@ EXCEPT !.reading = TRUE]]

\* connect() up to upstream.connect (proxy.py:115-146)
Connect ==
    /\ tunnel.pc = "idle"
    /\ tunnel' = [tunnel EXCEPT !.pc = "connecting"]
    /\ UNCHANGED <<cache, now, idx, files, dirs, data, req, nreq, admin>>

\* The upstream connection is made: the IOLoop calls start_tunnel.
Connected ==
    /\ tunnel.pc = "connecting"
    /\ \E sent \in BOOLEAN : tunnel' = start_tunnel(tunnel, sent)
    /\ UNCHANGED <<cache, now, idx, files, dirs, data, req, nreq, admin>>

\* The upstream connection cannot be made: the IOStream closes itself and
\* drops the connect callback.  connect() registered nothing else.
ConnectFails ==
    /\ tunnel.pc = "connecting"
    /\ tunnel' = [tunnel EXCEPT !.pc = "failed",
                                !.upstream = CloseStream(@)]
    /\ UNCHANGED <<cache, now, idx, files, dirs, data, req, nreq, admin>>

\* The peers: each sends up to MaxBytes bytes and may close its end.
ClientSends ==
    /\ tunnel.pc # "idle"
    /\ ~tunnel.clientEOF /\ ~tunnel.client.closed
    /\ tunnel.nClient < MaxBytes
    /\ tunnel' = [tunnel EXCEPT !.nClient = @ + 1,
                                !.fromClient = Append(@, tunnel.nClient + 1)]
    /\ UNCHANGED <<cache, now, idx, files, dirs, data, req, nreq, admin>>

UpstreamSends ==
    /\ tunnel.pc = "tunnel"
    /\ ~tunnel.upstreamEOF /\ ~tunnel.upstream.closed
    /\ tunnel.nUpstream < MaxBytes
    /\ tunnel' = [tunnel EXCEPT
                    !.nUpstream = @ + 1,
                    !.fromUpstream =
                        Append(@, UpstreamBase + tunnel.nUpstream + 1)]
    /\ UNCHANGED <<cache, now, idx, files, dirs, data, req, nreq, admin>>

ClientCloses ==
    /\ tunnel.pc # "idle"
    /\ ~tunnel.clientEOF /\ ~tunnel.client.closed
    /\ tunnel' = [tunnel EXCEPT !.clientEOF = TRUE]
    /\ UNCHANGED <<cache, now, idx, files, dirs, data, req, nreq, admin>>

UpstreamCloses ==
    /\ tunnel.pc = "tunnel"
    /\ ~tunnel.upstreamEOF /\ ~tunnel.upstream.closed
    /\ tunnel' = [tunnel EXCEPT !.upstreamEOF = TRUE]
    /\ UNCHANGED <<cache, now, idx, files, dirs, data, req, nreq, admin>>

\* The IOLoop finds the client socket readable: read_until_close
\* (proxy.py:140) hands what arrived to the streaming callback; at the end
\* of the input the stream closes and the final callback is due, with the
\* bytes not streamed before (viaClose) or with none.
ReadClient ==
    /\ tunnel.client.reading /\ ~tunnel.client.closed
    /\ tunnel.fromClient # << >> \/ tunnel.clientEOF
    /\ \E viaClose \in BOOLEAN :
         LET got == tunnel.fromClient
             streamed == IF got # << >> /\ ~(tunnel.clientEOF /\ viaClose)
                         THEN <<Callback("read_from_client", got)>>
                         ELSE << >>
             final == IF tunnel.clientEOF
                      THEN <<Callback("client_close",
                                      IF viaClose THEN got ELSE << >>)>>
                      ELSE << >>
         IN tunnel' = [tunnel EXCEPT
                         !.fromClient = << >>,
                         !.readClient = @ \o got,
                         !.client = IF tunnel.clientEOF THEN CloseStream(@)
                                    ELSE @,
                         !.loop = @ \o streamed \o final]
    /\ UNCHANGED <<cache, now, idx, files, dirs, data, req, nreq, admin>>

\* The same for the upstream socket (proxy.py:141).
ReadUpstream ==
    /\ tunnel.upstream.reading /\ ~tunnel.upstream.closed
    /\ tunnel.fromUpstream # << >> \/ tunnel.upstreamEOF
    /\ \E viaClose \in BOOLEAN :
         LET got == tunnel.fromUpstream
             streamed == IF got # << >> /\ ~(tunnel.upstreamEOF /\ viaClose)
                         THEN <<Callback("read_from_upstream", got)>>
                         ELSE << >>
             final == IF tunnel.upstreamEOF
                      THEN <<Callback("upstream_close",
                                      IF viaClose THEN got ELSE << >>)>>
                      ELSE << >>
         IN tunnel' = [tunnel EXCEPT
                         !.fromUpstream = << >>,
                         !.readUpstream = @ \o got,
                         !.upstream = IF tunnel.upstreamEOF
                                      THEN CloseStream(@) ELSE @,
                         !.loop = @ \o streamed \o final]
    /\ UNCHANGED <<cache, now, idx, files, dirs, data, req, nreq, admin>>

\* A socket takes what waits in its stream's write buffer.
FlushClient ==
    /\ ~tunnel.client.closed /\ tunnel.client.wbuf # << >>
    /\ tunnel' = [tunnel EXCEPT
                    !.client = [@ EXCEPT !.out = @ \o tunnel.client.wbuf,
                                         !.wbuf = << >>]]
    /\ UNCHANGED <<cache, now, idx, files, dirs, data, req, nreq, admin>>

FlushUpstream ==
    /\ ~tunnel.upstream.closed /\ tunnel.upstream.wbuf # << >>
    /\ tunnel' = [tunnel EXCEPT
                    !.upstream = [@ EXCEPT !.out = @ \o tunnel.upstream.wbuf,
                                           !.wbuf = << >>]]
    /\ UNCHANGED <<cache, now, idx, files, dirs, data, req, nreq, admin>>

\* The IOLoop runs the callback that is due first.
RunCallback ==
    /\ tunnel.loop # << >>
    /\ \E sent \in BOOLEAN :
         LET cb == Head(tunnel.loop)
             t == [tunnel EXCEPT !.loop = Tail(@)]
         IN tunnel' =
              IF cb.f = "read_from_client"
              THEN read_from_client(t, cb.data, sent)
              ELSE IF cb.f = "read_from_upstream"
              THEN read_from_upstream(t, cb.data, sent)
              ELSE IF cb.f = "client_close"
              THEN client_close(t, cb.data, sent)
              ELSE upstream_close(t, cb.data, sent)
    /\ UNCHANGED <<cache, now, idx, files, dirs, data, req, nreq, admin>>

\* What the proxy does on its own, given the chance.
ProxySteps ==
    \/ Connected \/ ConnectFails
    \/ ReadClient \/ ReadUpstream
    \/ FlushClient \/ FlushUpstream
    \/ RunCallback

NextTunnel ==
    \/ Connect
    \/ ProxySteps
    \/ ClientSends \/ UpstreamSends
    \/ ClientCloses \/ UpstreamCloses

\* ------------------------------------------------------------ specification
Init ==
    /\ cache \in CacheKinds
    /\ now = 0
    /\ idx = EmptyBag
    /\ files = Empty
    /\ dirs = {}
    /\ data = Empty
    /\ req = [r \in Reqs |-> Idle]
    /\ nreq = 0
    /\ tunnel = NoTunnel
    /\ admin = NoAdmin

DoGet ==
    /\ nreq < MaxReqs
    /\ \E r \in Reqs, hash \in Hashes, T \in TargetHeaders,
          W \in ControlHeaders :
           Get(r, hash, T, W, "scheduled")

DoHandleResponse ==
    \E r \in Reqs, response \in OriginResponses, how \in PutOutcomes :
        HandleResponse(r, response, how)

DoClose == \E r \in Reqs : Close(r)

Next == DoGet \/ DoHandleResponse \/ DoClose \/ Tick

Spec == Init /\ [][Next]_vars

\* A fetch that got no answer ends with a failure (the connection fails or
\* the client gives up waiting): the callback given to client.fetch
\* (proxy.py:101) runs with a response whose error is no HTTP status.
FetchFailed(r) == HandleResponse(r, Origin("other", 599, "", NoBody), NoPut)

\* The IOLoop keeps running and every fetch ends.  FetchFailed(r) is enabled
\* exactly while r is fetching, so this says that no fetch stays open for
\* ever, whichever way it ends.
SpecFair == Spec /\ \A r \in Reqs : WF_vars(FetchFailed(r))

\* The same, with client.fetch free to raise.
DoGetRaising ==
    /\ nreq < MaxReqs
    /\ \E r \in Reqs, hash \in Hashes, T \in TargetHeaders,
          W \in ControlHeaders, fetch \in FetchOutcomes :
           Get(r, hash, T, W, fetch)

NextRaising == DoGetRaising \/ DoHandleResponse \/ DoClose \/ Tick

SpecRaising == Init /\ [][NextRaising]_vars

\* Clients that send no control headers (as src/test.py does), through a
\* wayback-backed proxy.
InitPlain == Init /\ cache = "wayback"

DoGetPlain ==
    /\ nreq < MaxPlainReqs
    /\ \E r \in Reqs, hash \in Hashes :
           Get(r, hash, None, None, "scheduled")

NextPlain == DoGetPlain \/ DoHandleResponse \/ DoClose \/ Tick

SpecPlain == InitPlain /\ [][NextPlain]_vars

\* -------------------------------------------------- key resolution on its own
\* hash_request applied to a fresh request, over every content of the index
\* file that __init__ opens (cache.py:177-182 reuses an existing wayback.db)
\* and every reading of the wall clock.  pc names the exception raised, or
\* is "resolved".
HashRequest(r, hash, T, W) ==
    /\ req[r].pc = "idle"
    /\ LET request == [Idle EXCEPT !.hash = hash, !.T = T, !.W = W,
                                   !.hdrT = T, !.hdrW = W]
           h == WaybackFileSystemCache_hash_request(request, idx, now)
       IN req' = [req EXCEPT ![r] =
                    [h.request EXCEPT
                       !.pc = IF h.raise = "" THEN "resolved" ELSE h.raise]]
    /\ UNCHANGED <<cache, now, idx, files, dirs, data, nreq, tunnel, admin>>

\* The request object is dropped.
Drop(r) ==
    /\ req[r].pc \in {"resolved", "WaybackPageNotFound", "ValueError"}
    /\ req' = [req EXCEPT ![r] = Idle]
    /\ UNCHANGED <<cache, now, idx, files, dirs, data, nreq, tunnel, admin>>

InitResolve ==
    /\ cache = "wayback"
    /\ now \in Timestamps
    /\ idx \in { SetToBag(rows) : rows \in SUBSET (Hashes \X Timestamps) }
    /\ files = Empty
    /\ dirs = {}
    /\ data = Empty
    /\ req = [r \in Reqs |-> Idle]
    /\ nreq = 0
    /\ tunnel = NoTunnel
    /\ admin = NoAdmin

DoHashRequest ==
    \E hash \in Hashes, T \in HeaderValues \ {BadInt}, W \in HeaderValues :
        HashRequest(1, hash, T, W)

DoDrop == Drop(1)

NextResolve == DoHashRequest \/ DoDrop

SpecResolve == InitResolve /\ [][NextResolve]_vars

\* ------------------------------------- the wayback cache with its other callers
\* The proxy serving clients without control headers, next to CacheHandler
\* and the mapping API of the cache.
DoGetFew ==
    /\ nreq < MaxReqs
    /\ \E r \in Reqs, hash \in Hashes :
           Get(r, hash, None, None, "scheduled")

DoForcedInsert ==
    \E hash \in Hashes, timestamp \in {None, 0}, how \in {"ok", "write"} :
        ForcedInsert(hash, timestamp, how)

DoAdminGet == \E hash \in Hashes : AdminGet(hash)

DoContains ==
    \E hash \in Hashes, atRoot \in BOOLEAN :
        Contains(hash, None, None, atRoot)

NextAdmin ==
    \/ DoGetFew \/ DoHandleResponse \/ DoClose \/ Tick
    \/ DoForcedInsert \/ DoAdminGet \/ DoContains \/ Restart

SpecAdmin == InitPlain /\ [][NextAdmin]_vars

\* ------------------------------------------- contains next to get, every cache
\* The proxy fills a cache of any kind while a caller asks `request in
\* cache`, from a working directory that is the cache root or is not.
InitContains == Init /\ cache # "none"

NextContains == DoGetFew \/ DoHandleResponse \/ DoClose \/ Tick \/ DoContains

SpecContains == InitContains /\ [][NextContains]_vars

\* -------------------------------------------------- the fingerprint on its own
InitHash ==
    /\ cache = "simple"
    /\ now = 0
    /\ idx = EmptyBag
    /\ files = Empty
    /\ dirs = {}
    /\ data = Empty
    /\ req = [r \in Reqs |-> Idle]
    /\ nreq = 0
    /\ tunnel = NoTunnel
    /\ admin \in [op : {"requests"}, a : Triples, b : Triples,
                  fa : {NoDigest}, fb : {NoDigest}]

NextHash == Fingerprint \/ Forget

SpecHash == InitHash /\ [][NextHash]_vars

\* ---------------------------------------------------- the record on its own
InitRoundTrip ==
    /\ cache = "file"
    /\ now = 0
    /\ idx = EmptyBag
    /\ files = << >>
    /\ dirs = {}
    /\ data = Empty
    /\ req = [r \in Reqs |-> Idle]
    /\ nreq = 0
    /\ tunnel = NoTunnel
    /\ admin \in [op : {"val"}, val : Responses, raise : {""},
                  found : {FALSE}, got : {NoGot}]

NextRoundTrip == RoundTripPut \/ RoundTripGet

SpecRoundTrip == InitRoundTrip /\ [][NextRoundTrip]_vars

\* ------------------------------------------------------- the tunnel on its own
\* One CONNECT session; no cache is involved.
InitTunnel == Init /\ cache = "none"

SpecTunnel == InitTunnel /\ [][NextTunnel]_vars

\* The IOLoop keeps running: what the proxy can do, it does.
SpecTunnelFair == SpecTunnel /\ WF_vars(ProxySteps)

\* ------------------------------------------------------------------- claims
\* The timestamps the index records for a fingerprint.
Recorded(hash) == { row[2] : row \in { x \in BagToSet(idx) : x[1] = hash } }

Greatest(S) == CHOOSE t \in S : \A u \in S : u <= t

\* A request whose key resolution has run to its end, with well-formed
\* control headers.
Resolved(r) ==
    /\ req[r].pc \in {"resolved", "WaybackPageNotFound"}
    /\ req[r].W # BadInt

\* The recorded timestamps that satisfy the resolution rule for target T and
\* window W (None when absent).
Satisfying(hash, T, W) ==
    { t \in Recorded(hash) :
        IF W = 0 THEN t = T
        ELSE IF W = None THEN t <= T
        ELSE T - W < t /\ t <= T }

\* C4: with a target timestamp T given, key resolution yields T itself when
\* W == 0 and T is recorded, the greatest recorded timestamp in (T - W, T]
\* when W > 0 and the greatest recorded timestamp <= T when W is absent; it
\* fails with version-not-found exactly when no recorded timestamp of the
\* fingerprint satisfies the condition, and a successful resolution is
\* flagged as a pre-existing snapshot (no insert).
C4_TargetResolution ==
    \A r \in Reqs :
        (Resolved(r) /\ req[r].T # None) =>
            LET S == Satisfying(req[r].hash, req[r].T, req[r].W)
            IN IF S = {}
               THEN req[r].pc = "WaybackPageNotFound"
               ELSE /\ req[r].pc = "resolved"
                    /\ req[r].wb_timestamp = Greatest(S)
                    /\ req[r].wb_insert = FALSE
                    /\ req[r].wb_path = WaybackPath(req[r].hash, Greatest(S))

\* C4's case: a window that holds two recorded timestamps, the later one
\* resolved.
C4_Witness ==
    \E r \in Reqs :
        /\ req[r].pc = "resolved"
        /\ req[r].T # None
        /\ req[r].W \notin {None, BadInt, 0}
        /\ Cardinality(Satisfying(req[r].hash, req[r].T, req[r].W)) > 1
        /\ Recorded(req[r].hash) # Satisfying(req[r].hash, req[r].T, req[r].W)

\* The recorded timestamps in (now - W, now], W defaulting to the lookback
\* window.
InWindow(hash, W) ==
    { t \in Recorded(hash) :
        IF W = 0 THEN t = now
        ELSE /\ now - (IF W = None THEN default_within ELSE W) < t
             /\ t <= now }

\* C5: with no target timestamp, key resolution yields the greatest recorded
\* timestamp of the fingerprint in (now - W, now] (W defaulting to the
\* lookback window, an exact match at now when W == 0), also when the index
\* holds rows later than now; when there is none the lookup is flagged new
\* with timestamp now.
C5_NowResolution ==
    \A r \in Reqs :
        (Resolved(r) /\ req[r].T = None) =>
            LET S == InWindow(req[r].hash, req[r].W)
            IN /\ req[r].pc = "resolved"
               /\ IF S = {}
                  THEN req[r].wb_insert /\ req[r].wb_timestamp = now
                  ELSE ~req[r].wb_insert /\ req[r].wb_timestamp = Greatest(S)

\* ---------------------------------------------------- claims on the proxy
\* Request r is received in this step (ProxyHandler.get runs for it).
Arrives(r) == req[r].pc = "idle" /\ req'[r].pc # "idle"

StorageUnchanged == UNCHANGED <<idx, files, dirs, data>>

\* C1: through a wayback-backed proxy, a request that carries a target
\* timestamp T for which the index holds no timestamp of its fingerprint
\* satisfying the resolution rule is answered with 523; no fetch is issued
\* for it and nothing is written to the cache.
C1_NotFoundIs523 ==
    [][\A r \in Reqs :
         ( /\ Arrives(r)
           /\ cache = "wayback"
           /\ req'[r].T # None
           /\ req'[r].W # BadInt
           /\ Satisfying(req'[r].hash, req'[r].T, req'[r].W) = {} )
         => ( /\ req'[r].pc = "done"
              /\ req'[r].status = 523
              /\ req'[r].fetches = 0
              /\ req'[r].finished = 1
              /\ StorageUnchanged )]_vars

\* C1's case: a 523 delivered for a fingerprint that has recorded
\* snapshots, none of them matching.
C1_Witness ==
    \E r \in Reqs :
        /\ req[r].pc = "done"
        /\ req[r].status = 523
        /\ req[r].T # None
        /\ Recorded(req[r].hash) # {}
        /\ Satisfying(req[r].hash, req[r].T, req[r].W) = {}

\* C2: a request with an explicit target timestamp is answered with 523 or
\* from a snapshot stored earlier: the proxy never fetches live for it (and
\* so never stores a current copy under a past timestamp), also when an
\* index row has no readable snapshot file.
C2_ExplicitNeverLive ==
    \A r \in Reqs :
        (cache = "wayback" /\ req[r].T # None /\ req[r].W # BadInt)
            => req[r].fetches = 0

\* C7: a failure while storing a live-fetched response never prevents or
\* changes the response: the client gets the origin's status, allow-listed
\* headers and body.
C7_StoreFailureHarmless ==
    \A r \in Reqs :
        ( /\ req[r].pc = "done"
          /\ req[r].fetches = 1
          /\ req[r].resp # NoResponse
          /\ req[r].resp.error # "other" )
        => ( /\ req[r].status = req[r].resp.code
             /\ req[r].ctype = req[r].resp.ctype
             /\ req[r].body = req[r].resp.body )

\* C8: in a wayback cache every index row (F, t) has a complete snapshot
\* record at the path derived from (F, t): no row is appended when the
\* snapshot write failed.
C8_RowsHaveSnapshots ==
    cache = "wayback" =>
        \A row \in BagToSet(idx) : WaybackPath(row[1], row[2]) \in DOMAIN files

\* The fetch of request r ends in this step with an error that is no HTTP
\* status: the callback gets a response whose error is no HTTPError, or
\* client.fetch raises an HTTPError that carries no response.
FetchFails(r) ==
    \/ /\ req[r].pc = "fetching"
       /\ req'[r].pc # "fetching"
       /\ req'[r].resp.error = "other"
    \/ /\ Arrives(r)
       /\ req'[r].pc = "done"
       /\ req'[r].fetches = 1
       /\ req'[r].resp = NoResponse

Built(hash, T, W) ==
    [Idle EXCEPT !.hash = hash, !.T = T, !.W = W, !.hdrT = T, !.hdrW = W]

\* cache.get(req) for what request r' carries; a hit returns a response.
Lookup(r) == CacheGet(Built(req'[r].hash, req'[r].T, req'[r].W))

\* The stored response the lookup of request r resolves to.
StoredFor(r) ==
    IF cache = "simple" THEN data[req'[r].hash]
    ELSE IF cache = "file" THEN files[<<req'[r].hash, None>>]
    ELSE files[Lookup(r).request.wb_path]

\* C10: when a cache is configured and the lookup is a hit, no fetch is
\* issued, the stored response's status, allow-listed headers and body are
\* delivered, and the cache and the index are left unchanged.
C10_HitServedFromCache ==
    [][\A r \in Reqs :
         ( /\ Arrives(r)
           /\ cache # "none"
           /\ Lookup(r).raise = ""
           /\ Lookup(r).found )
         => ( /\ req'[r].pc = "done"
              /\ req'[r].fetches = 0
              /\ req'[r].finished = 1
              /\ req'[r].status = StoredFor(r).code
              /\ req'[r].ctype = StoredFor(r).ctype
              /\ req'[r].body = StoredFor(r).body
              /\ StorageUnchanged )]_vars

\* C10's case: a request answered from the cache without a fetch.
C10_Witness ==
    \E r \in Reqs :
        /\ req[r].pc = "done"
        /\ req[r].fetches = 0
        /\ req[r].status \in {200, 404}
        /\ cache \in {"file", "wayback"}
        /\ req[r].hkey \in DOMAIN files
        /\ req[r].body = files[req[r].hkey].body

\* ------------------------------------ claims on clients without control headers
\* C3: once a request without control headers was fetched live and stored,
\* every later identical request within the default lookback window is
\* served from that snapshot: same body and same X-Proxy-Cache-Key as the
\* first response, whatever the origin returns.
C3_LaterServedFromFirst ==
    [][\A r1, r2 \in Reqs :
         ( /\ r1 # r2
           /\ req[r1].pc = "done"
           /\ req[r1].fetches = 1
           /\ req[r1].stored = "ok"
           /\ req[r1].T = None /\ req[r1].W = None
           /\ Arrives(r2)
           /\ req'[r2].T = None /\ req'[r2].W = None
           /\ req'[r2].hash = req[r1].hash
           /\ req[r1].hts > now - default_within )
         => ( /\ req'[r2].pc = "done"
              /\ req'[r2].fetches = 0
              /\ req'[r2].body = req[r1].body
              /\ req'[r2].hkey = req[r1].hkey )]_vars

\* C6: no (fingerprint, timestamp) pair appears in more than one index row,
\* for every interleaving of in-flight requests for the same fingerprint.
C6_RowsUnique ==
    \A row \in BagToSet(idx) : CopiesIn(row, idx) = 1

\* C15: the body of every 523 response names the requested URL, the
\* requested target timestamp and the tolerance window the request supplied
\* in its X-Wayback-Within header.
C15_NotFoundNamesWindow ==
    \A r \in Reqs :
        (req[r].pc = "done" /\ req[r].status = 523) =>
            req[r].body = <<"Could not find", req[r].hash, req[r].T, req[r].W>>

\* The response request r got came out of the cache, or went into it.
ServedFromCache(r) ==
    req[r].pc = "done" /\ req[r].fetches = 0 /\ req[r].status # 523

StoredInCache(r) == req[r].pc = "done" /\ req[r].stored = "ok"

\* C18: for every cache (in-memory, file-backed, wayback) a response that
\* was served from the cache or stored into it carries X-Proxy-Cache-Key
\* with the storage key resolved for the request, and for the wayback cache
\* X-Wayback-Timestamp with the timestamp resolved for it.
C18_ProvenanceHeaders ==
    \A r \in Reqs :
        (cache # "none" /\ (ServedFromCache(r) \/ StoredInCache(r))) =>
            /\ req[r].hkey # NoPath
            /\ req[r].hkey[1] = req[r].hash
            /\ cache = "wayback" =>
                 /\ req[r].hts # None
                 /\ req[r].hkey = WaybackPath(req[r].hash, req[r].hts)

\* C19: a put that fails while writing the snapshot record leaves no
\* corrupt or partial record to be seen: whatever a later get finds under
\* the root is a record that a put wrote in full.
C19_NoPartialRecord ==
    \A key \in DOMAIN files : files[key].complete

\* C19's case: a live response was delivered although its write had failed
\* and was swallowed, and no file is at its key.
C19_Witness ==
    \E r \in Reqs :
        /\ req[r].pc = "done"
        /\ req[r].fetches = 1
        /\ req[r].stored = "failed"
        /\ req[r].status = req[r].resp.code
        /\ req[r].hkey # NoPath
        /\ req[r].hkey \notin DOMAIN files

\* ------------------------------------------------- claims on the time index
\* C20: the time index is append-only: every operation of the proxy and of
\* the cache (get, put, contains, forced insert) leaves the rows that exist
\* in place, unchanged; rows are only added.
C20_IndexAppendOnly ==
    [][\A row \in BagToSet(idx) : CopiesIn(row, idx') >= CopiesIn(row, idx)]_vars

\* C20's case: two captures of one fingerprint are recorded, and a forced
\* insert has run.
C20_Witness ==
    /\ \E a, b \in BagToSet(idx) : a[1] = b[1] /\ a[2] # b[2]
    /\ admin.op = "post"

\* C21: a stored snapshot is never overwritten or removed: a record stored
\* under a storage key that a get can resolve to (for the wayback cache, a
\* key the index has a row for) stays there, the same, over every step, also
\* when two requests for one fingerprint both miss, both fetch and both
\* store, and when a later put to the same key fails.
Resolvable(key) == cache = "wayback" => CopiesIn(key, idx) > 0

C21_SnapshotsKept ==
    [][\A key \in DOMAIN files :
          Resolvable(key) =>
              key \in DOMAIN files' /\ files'[key] = files[key]]_vars

\* C22: for every cache implementation and after any puts,
\* contains(request) is true exactly when get(request) is a hit, whatever
\* the root directory and the working directory are.
C22_ContainsIffHit ==
    [][\A hash \in Hashes, atRoot \in BOOLEAN :
          Contains(hash, None, None, atRoot) =>
              admin'.found = CacheGet(Asked(hash, None, None)).found]_vars

\* C23: every GET/POST request is completed exactly once: on each path
\* (cache hit, 523, live fetch with an HTTP response, live fetch with a
\* transport failure, cache read error followed by a live fetch) the
\* response is eventually finished, and it is never finished twice.
C23_FinishedOnce ==
    /\ [](\A r \in Reqs :
             /\ req[r].finished <= 1
             /\ req[r].pc \in {"idle", "fetching", "done"}
             /\ req[r].finished = 1 <=> req[r].pc = "done")
    /\ \A r \in Reqs : (req[r].pc = "fetching") ~> (req[r].pc = "done")

\* C23's case: a request whose cache read failed (X-Wayback-Within is no
\* number) went on to a live fetch and is finished.
C23_Witness ==
    \E r \in Reqs :
        /\ cache = "wayback"
        /\ req[r].W = BadInt
        /\ req[r].fetches = 1
        /\ req[r].pc = "done"
        /\ req[r].finished = 1

\* ------------------------------------------------- claims on the fingerprint
\* The body bytes of a request, an absent body counting as empty.
BodyBytes(request) ==
    IF request.body.given THEN request.body.bytes ELSE << >>

\* C16: two requests have the same fingerprint if and only if they have the
\* same method, the same url and the same body bytes (an absent body
\* counting as empty), the digest being collision-free over what it is fed.
C16_FingerprintSeparates ==
    admin.op = "hashed" =>
        ( admin.fa = admin.fb <=>
            /\ admin.a.method = admin.b.method
            /\ admin.a.url = admin.b.url
            /\ BodyBytes(admin.a) = BodyBytes(admin.b) )

\* ------------------------------------------------------ claims on the record
\* The Content-Type of the response declares a charset.
DeclaresCharset(headers) ==
    /\ "Content-Type" \in DOMAIN headers
    /\ Len(headers["Content-Type"]) >= 2
    /\ headers["Content-Type"][2][1] = " charset"

\* The body is in the charset the response declares, if it declares one.
BodyMatches(val) ==
    DeclaresCharset(val.headers) =>
        Decode(Lower(val.headers["Content-Type"][2][2]), val.body).ok

\* C17: on the file-backed cache, put followed by get returns the status
\* code, the headers (the provenance headers apart) and the body bytes of
\* the response that was put, for every Content-Type (no parameter, a
\* charset, another parameter such as boundary) and for bodies that are not
\* valid UTF-8 when they are in the charset declared.
C17_RoundTrip ==
    (admin.op = "got" /\ BodyMatches(admin.val)) =>
        /\ admin.found
        /\ admin.got.raise = ""
        /\ admin.got.code = admin.val.code
        /\ admin.got.headers = admin.val.headers
        /\ admin.got.body = admin.val.body

\* ------------------------------------------------------- claims on the tunnel
\* Everything written to a stream that the socket took or still holds.
Written(stream) == stream.out \o stream.wbuf

IsPrefix(a, b) == Len(a) <= Len(b) /\ a = SubSeq(b, 1, Len(a))

\* The client of the CONNECT request was answered: something was written to
\* it, or its connection was closed by the proxy.
Answered == Written(tunnel.client) # << >> \/ tunnel.client.closed

\* C11: when the upstream connection of a CONNECT request cannot be made, no
\* tunnel byte is relayed and the client is eventually sent a failure
\* indication or has its connection closed: the request does not stay
\* without any response for ever.
C11_ConnectFailureAnswered ==
    /\ [](tunnel.pc = "failed" =>
            Written(tunnel.client) = << >> /\ Written(tunnel.upstream) = << >>)
    /\ (tunnel.pc = "failed") ~> Answered

\* C12: the 200 line is written to the client only after the upstream
\* connection succeeded and is the first data the proxy writes to it, and no
\* client byte is forwarded upstream before the connection is established.
C12_EstablishedLineFirst ==
    /\ Written(tunnel.client) # << >> =>
         tunnel.pc = "tunnel" /\ Head(Written(tunnel.client)) = Established
    /\ Written(tunnel.upstream) # << >> => tunnel.pc = "tunnel"

\* C12's case: the client has the 200 line and a byte from upstream after
\* it, and a byte of the client has reached upstream.
C12_Witness ==
    /\ Len(tunnel.client.out) > 1
    /\ Head(tunnel.client.out) = Established
    /\ tunnel.upstream.out # << >>

\* What a peer received, the 200 line apart.
NotTheLine(b) == b # Established
Relayed(received) == SelectSeq(received, NotTheLine)

\* The session is over: both streams closed, nothing left to run.
SessionOver ==
    /\ tunnel.pc = "tunnel"
    /\ tunnel.client.closed /\ tunnel.upstream.closed
    /\ tunnel.loop = << >>

\* C13: upstream receives exactly the bytes read from the client, in order,
\* and the client receives, after the 200 line, exactly the bytes read from
\* upstream, in order; nothing read is lost when the side it came from
\* closes, be it already read or still waiting to be written.
C13_TunnelLossless ==
    /\ IsPrefix(tunnel.upstream.out, tunnel.readClient)
    /\ IsPrefix(Relayed(tunnel.client.out), tunnel.readUpstream)
    /\ (SessionOver /\ ~tunnel.upstreamEOF) =>
           tunnel.upstream.out = tunnel.readClient
    /\ (SessionOver /\ ~tunnel.clientEOF) =>
           Relayed(tunnel.client.out) = tunnel.readUpstream

\* C14, first half: in an established tunnel, once one stream is closed the
\* other is eventually closed too.
C14_CloseReachesBoth ==
    (tunnel.pc = "tunnel" /\ (tunnel.client.closed \/ tunnel.upstream.closed))
        ~> (tunnel.client.closed /\ tunnel.upstream.closed)

\* C14: when either stream of an established tunnel closes the other is
\* closed as well, and a stream that is already closed is not written to or
\* closed again.  This is the second half: no callback writes to a closed
\* stream.
C14_ClosedStreamsLeftAlone ==
    tunnel.pc = "tunnel" => tunnel.raised = {}

====
